---- MODULE Spec2Model ----
(***************************************************************************)
(* A model of the Storj network interface, lib/network/index.js: the       *)
(* signed message envelope (_signMessage, _verifyMessage) behind the       *)
(* transport's hooks, the node lifecycle and the seed ping timers (join,   *)
(* leave, _addPingInterval, _removePingInterval), the renter operations    *)
(* store, retrieve and audit with the pending-contract table, and the      *)
(* farmer's side of the negotiation (_farm).                               *)
(*                                                                         *)
(* Each part has a specification of its own over the shared variables:     *)
(* SpecAuth (the envelope, on a joined node), SpecNet (join, leave,        *)
(* pings), SpecStore (store, OFFER, CONSIGN), SpecStored (retrieve and     *)
(* audit of a shard that store() has stored), SpecFarm (_farm) and         *)
(* SpecManaged (retrieve and audit of whatever item the manager holds).    *)
(***************************************************************************)
EXTENDS Integers, Sequences, FiniteSets, TLC

\* ------------------------------------------------------------------------
\* Bounds of the model
\* ------------------------------------------------------------------------

\* How many times the clock advances in a behaviour.
MaxTicks == 2

\* How many key pairs exist (identities 1..NumKeys).
NumKeys == 2

\* The longest seed list handed to the constructor.
MaxSeeds == 2

\* How many PING messages the interval timers send in a behaviour.
MaxPings == 2

\* How many store() calls the application makes in a behaviour.
MaxStores == 2

\* How many published contracts reach the farmer's subscription.
MaxContracts == 2

\* ------------------------------------------------------------------------
\* Constants of the program
\* ------------------------------------------------------------------------

\* constants.NONCE_EXPIRE, read at index.js:503 (15 s in milliseconds).
NONCE_EXPIRE == 15000

\* new Audit({ audits: 12, shard: data }) and audit_count: 12.
AuditCount == 12

VARIABLES
    \* --- message authentication ---
    now,        \* Date.now(), one clock for signer and verifier
    ticks,      \* how often the clock advanced
    wire,       \* the envelope in flight between serialize and receive (at most one)
    pubkeys,    \* this._pubkeys: node ID -> recovered public key
    verdict     \* what the receive hooks have just done with an envelope

VARIABLES
    \* --- lifecycle and seed liveness ---
    seeds,          \* options.seeds, as the node IDs their URIs carry
    farmer,         \* options.farmer
    open,           \* this._open
    errorListeners, \* listeners on the transport's 'error' event
    serializeHooks, \* transport.before('serialize', ...) hooks, in order
    receiveHooks,   \* transport.before('receive', ...) hooks, in order
    nodeGen,        \* how many kad.Node objects this._node has been set to
    subscriptions,  \* pub/sub subscriptions made by _farm
    connects,       \* seed indices whose _node.connect has not called back
    pingSeeds,      \* this._pingSeeds: node ID -> interval handle (0: none)
    timers,         \* the interval handles that are active
    nextTimer,      \* the handle the next setInterval returns
    pings,          \* PING messages sent by interval timers
    left,           \* leave() has run on a joined node (it did not throw)
    op,             \* the operation that took the last step
    joinResult      \* how the last join() ended

VARIABLES
    \* --- store, retrieve, audit ---
    calls,          \* the store() calls made: data, hash, what became of them
    pending,        \* this._pendingContracts: entries (hash, continuation)
    consigns,       \* CONSIGN exchanges in progress
    refused,        \* the valid OFFER last refused for want of a pending entry
    items,          \* the manager's StorageItems, by shard hash
    farmerHolds,    \* (farmer, hash): the farmer has the shard
    farmerProofs,   \* (farmer, challenge): proofs the farmer has computed
    req,            \* the retrieve() or audit() in progress (at most one)
    lastResult,     \* what the last retrieve() or audit() handed its callback
    auditSent,      \* (farmer, challenge) -> AUDIT messages sent with it
    discarded,      \* (farmer, hash): the farmer discarded the shard
    triesAfterDiscard, \* audits the farmer answered since it discarded
    falseAfterDiscard  \* one of them reported the verdict false

VARIABLES
    \* --- the farmer's side ---
    farms           \* the contracts the _farm handler was run for, and how far
                    \* each exchange got

authVars == <<now, ticks, wire, pubkeys, verdict>>

storeVars == <<calls, pending, consigns, refused, items, farmerHolds,
               farmerProofs, req, lastResult, auditSent, discarded,
               triesAfterDiscard, falseAfterDiscard>>

netVars == <<seeds, farmer, open, errorListeners, serializeHooks, receiveHooks,
             nodeGen, subscriptions, connects, pingSeeds, timers, nextTimer,
             pings, left, op, joinResult>>

farmVars == <<farms>>

\* What the actions of one part leave alone: the other parts.
notAuth == <<netVars, storeVars, farmVars>>

notNet == <<authVars, storeVars, farmVars>>

notStore == <<authVars, netVars, farmVars>>

vars == <<now, ticks, wire, pubkeys, verdict,
          seeds, farmer, open, errorListeners, serializeHooks, receiveHooks,
          nodeGen, subscriptions, connects, pingSeeds, timers, nextTimer,
          pings, left, op, joinResult,
          calls, pending, consigns, refused, items, farmerHolds,
          farmerProofs, req, lastResult, auditSent, discarded,
          triesAfterDiscard, falseAfterDiscard, farms>>

\* ------------------------------------------------------------------------
\* Keys, node IDs, signatures
\* ------------------------------------------------------------------------

Keys == 1..NumKeys

\* The key ECDSA recovery yields when the signature was made over another
\* target: a public key whose private key nobody holds.
JunkKey == 0

\* keypair.getNodeID(): RIPEMD160(SHA256(pubkey)), the value index.js:508
\* turns back into an address. Distinct keys have distinct node IDs.
NodeIdOf(k) == 100 + k

NodeIds == {NodeIdOf(k) : k \in Keys \cup {JunkKey}}

\* kad message ids are hex strings: sequences of the nibbles 0..15.
MsgIds == {<<10>>, <<11, 1>>}

\* String(nonce): the decimal digits of a number, as `message.id + nonce`
\* appends them (index.js:471, 507).
RECURSIVE Dec(_)
Dec(n) == IF n < 10 THEN <<n>> ELSE Append(Dec(n \div 10), n % 10)

\* var target = message.id + nonce;
Target(id, nonce) == id \o Dec(nonce)

\* Message(target).sign(privkey): a compact signature names, to whoever
\* recovers from it with the same target, the key that made it.
Sign(key, target) == [key |-> key, target |-> target]

\* ecdsa.toPublicKey() with hashbuf = Message(target).magicHash() and
\* sig = fromCompact(signature): the signer's key when the target is the
\* signed one, an unrelated key otherwise.
Recover(signature, target) ==
    IF signature.target = target THEN signature.key ELSE JunkKey

\* A variant that reads the clock twice: the attached nonce and the signed
\* nonce differ.
SignMessageTwoClocks(id, key, t) ==
    [id |-> id, nonce |-> t, signature |-> Sign(key, Target(id, t + 1))]

\* _signMessage: nonce = Date.now(); the signature is over id + nonce; both
\* are attached to the message body (params of a request, result of a
\* response: both hooks pick the body by the same isRequest test, so the
\* model keeps one body per message).
SignMessage(id, key, t) ==
    [id |-> id, nonce |-> t, signature |-> Sign(key, Target(id, t))]

\* A variant of the expiry test that lets one more millisecond pass.
NonceExpiredOffByOne(t, nonce) == t > NONCE_EXPIRE + nonce + 1

\* if (Date.now() > (constants.NONCE_EXPIRE + nonce))
NonceExpired(t, nonce) == t > NONCE_EXPIRE + nonce

\* A variant that checks the signature under the recovered key only, and
\* never compares that key's address with the contact's.
SignatureVerifiesNoAddressCheck(message, nodeID) == TRUE

\* signedmsg.verify(addr, signature) of bitcore-message: the key recovered
\* from the signature must derive to addr (contact.nodeID), and the
\* signature must verify under that key (which a recovered key always does).
SignatureVerifies(message, nodeID) ==
    NodeIdOf(Recover(message.signature, Target(message.id, message.nonce))) = nodeID

\* _verifyMessage(message, contact, callback): the error handed to callback.
VerifyMessage(message, nodeID, t) ==
    IF NonceExpired(t, message.nonce) THEN "Message signature expired"
    ELSE IF ~SignatureVerifies(message, nodeID) THEN "Signature verification failed"
    ELSE "ok"

\* this._pubkeys[contact.nodeID] = ecdsa.toPublicKey(); runs after the
\* expiry check and before the signature check (index.js:517).
PubkeysAfterVerify(pk, message, nodeID, t) ==
    IF NonceExpired(t, message.nonce) THEN pk
    ELSE [pk EXCEPT ![nodeID] =
            {Recover(message.signature, Target(message.id, message.nonce))}]

\* The 'receive' hooks of the transport run in the order they were
\* registered; a hook that calls back with an error ends the chain and the
\* message is dropped. The value is the hooks that ran.
RECURSIVE RunReceiveHooks(_, _, _, _)
RunReceiveHooks(hooks, message, nodeID, t) ==
    IF hooks = <<>> THEN <<>>
    ELSE IF Head(hooks) = "_verifyMessage" /\ VerifyMessage(message, nodeID, t) # "ok"
         THEN <<Head(hooks)>>
         ELSE <<Head(hooks)>> \o RunReceiveHooks(Tail(hooks), message, nodeID, t)

\* The hook h is among those that ran.
Ran(ran, h) == \E i \in DOMAIN ran : ran[i] = h

\* ------------------------------------------------------------------------
\* Lifecycle and seed liveness: join, leave, the ping intervals
\* ------------------------------------------------------------------------

\* The node IDs seed URIs may carry (_createContact: parsed.path.substr(1)).
SeedIds == {NodeIdOf(k) : k \in Keys}

SeedLists == UNION {[1..n -> SeedIds] : n \in 0..MaxSeeds}

\* The state the constructor leaves (index.js:48-75); _pingSeeds and _node
\* are not set yet.
InitNetWith(s, f) ==
    /\ seeds = s
    /\ farmer = f
    /\ open = FALSE
    /\ errorListeners = 0
    /\ serializeHooks = <<>>
    /\ receiveHooks = <<>>
    /\ nodeGen = 0
    /\ subscriptions = 0
    /\ connects = {}
    /\ pingSeeds = [n \in SeedIds |-> 0]
    /\ timers = {}
    /\ nextTimer = 1
    /\ pings = 0
    /\ left = FALSE
    /\ op = "new"
    /\ joinResult = "none"

InitNet == \E s \in SeedLists, f \in BOOLEAN : InitNetWith(s, f)

InitNetIdle == InitNetWith(<<>>, FALSE)

\* A registration that puts the protocol handlers in front of the verifier.
ReceiveHooksSwapped(hooks) == hooks \o <<"protocol", "_verifyMessage">>

\* this._transport.before('receive', this._verifyMessage.bind(this));
\* this._transport.before('receive', kad.hooks.protocol(...)); in this order.
ReceiveHooksOfJoin(hooks) == hooks \o <<"_verifyMessage", "protocol">>

\* The state join() leaves on a node built without seeds: the listener and
\* the hooks registered, _node set, _open true, and the subscription of
\* _farm made when the node is a farmer.
InitNetJoinedAs(f) ==
    /\ seeds = <<>>
    /\ farmer = f
    /\ open = TRUE
    /\ errorListeners = 1
    /\ serializeHooks = <<"_signMessage">>
    /\ receiveHooks = ReceiveHooksOfJoin(<<>>)
    /\ nodeGen = 1
    /\ subscriptions = IF f THEN 1 ELSE 0
    /\ connects = {}
    /\ pingSeeds = [n \in SeedIds |-> 0]
    /\ timers = {}
    /\ nextTimer = 1
    /\ pings = 0
    /\ left = FALSE
    /\ op = "join"
    /\ joinResult = "ok"

InitNetJoined == InitNetJoinedAs(FALSE)

\* A join() that registers its hooks and listener before it asserts that
\* the interface is not open yet.
JoinAssertsLate ==
    /\ UNCHANGED notNet
    /\ op' = "join"
    /\ errorListeners' = errorListeners + 1
    /\ serializeHooks' = Append(serializeHooks, "_signMessage")
    /\ receiveHooks' = ReceiveHooksOfJoin(receiveHooks)
    /\ IF open
       THEN /\ joinResult' = "Network interface already open"
            /\ UNCHANGED <<seeds, farmer, open, nodeGen, subscriptions, connects,
                           pingSeeds, timers, nextTimer, pings, left>>
       ELSE /\ nodeGen' = nodeGen + 1
            /\ open' = TRUE
            /\ connects' = DOMAIN seeds
            /\ subscriptions' = IF farmer THEN subscriptions + 1 ELSE subscriptions
            /\ joinResult' = "ok"
            /\ UNCHANGED <<seeds, farmer, pingSeeds, timers, nextTimer, pings, left>>

\* Network.prototype.join: the assertion comes before any registration;
\* then the hooks, the node, _open = true, one connect per seed (async.each
\* calls next() at once, so the final callback runs in the same turn), _farm
\* for a farmer, callback(null, self).
Join ==
    /\ UNCHANGED notNet
    /\ op' = "join"
    /\ IF open
       THEN /\ joinResult' = "Network interface already open"
            /\ UNCHANGED <<seeds, farmer, open, errorListeners, serializeHooks,
                           receiveHooks, nodeGen, subscriptions, connects,
                           pingSeeds, timers, nextTimer, pings, left>>
       ELSE /\ errorListeners' = errorListeners + 1
            /\ serializeHooks' = Append(serializeHooks, "_signMessage")
            /\ receiveHooks' = ReceiveHooksOfJoin(receiveHooks)
            /\ nodeGen' = nodeGen + 1
            /\ open' = TRUE
            /\ connects' = DOMAIN seeds
            /\ subscriptions' = IF farmer THEN subscriptions + 1 ELSE subscriptions
            /\ joinResult' = "ok"
            /\ UNCHANGED <<seeds, farmer, pingSeeds, timers, nextTimer, pings, left>>

\* _addPingInterval(contact, interval): the new handle replaces the entry
\* for contact.nodeID; an interval already running under that node ID is
\* not cleared.
AddPingInterval(nodeID) ==
    /\ pingSeeds' = [pingSeeds EXCEPT ![nodeID] = nextTimer]
    /\ timers' = timers \cup {nextTimer}
    /\ nextTimer' = nextTimer + 1

\* self._node.connect(contact, function(err) {...}) calls back without
\* error: if (!err) self._addPingInterval(contact, ms('1m')).
ConnectOk ==
    /\ UNCHANGED notNet
    /\ \E i \in connects :
         /\ connects' = connects \ {i}
         /\ AddPingInterval(seeds[i])
    /\ op' = "connect"
    /\ UNCHANGED <<seeds, farmer, open, errorListeners, serializeHooks,
                   receiveHooks, nodeGen, subscriptions, pings, left, joinResult>>

\* ... calls back with an error: nothing is scheduled.
ConnectErr ==
    /\ UNCHANGED notNet
    /\ \E i \in connects : connects' = connects \ {i}
    /\ op' = "connect"
    /\ UNCHANGED <<seeds, farmer, open, errorListeners, serializeHooks,
                   receiveHooks, nodeGen, subscriptions, pingSeeds, timers,
                   nextTimer, pings, left, joinResult>>

\* pingSeed(): an active interval fires and sends a PING.
PingSeed ==
    /\ UNCHANGED notNet
    /\ timers # {}
    /\ pings < MaxPings
    /\ pings' = pings + 1
    /\ op' = "ping"
    /\ UNCHANGED <<seeds, farmer, open, errorListeners, serializeHooks,
                   receiveHooks, nodeGen, subscriptions, connects, pingSeeds,
                   timers, nextTimer, left, joinResult>>

\* _removePingInterval() without a contact: clearInterval on every handle
\* still recorded in _pingSeeds; the entries themselves stay.
RemoveAllPingIntervals(t) == t \ {pingSeeds[n] : n \in DOMAIN pingSeeds}

\* A leave() that also marks the interface closed.
LeaveClosing ==
    /\ UNCHANGED notNet
    /\ timers' = RemoveAllPingIntervals(timers)
    /\ left' = (left \/ nodeGen > 0)
    /\ open' = FALSE
    /\ op' = IF nodeGen = 0 THEN "leave threw" ELSE "leave"
    /\ UNCHANGED <<seeds, farmer, errorListeners, serializeHooks,
                   receiveHooks, nodeGen, subscriptions, connects, pingSeeds,
                   nextTimer, pings, joinResult>>

\* Network.prototype.leave: _removePingInterval(), then
\* this._node.disconnect(callback), which throws a TypeError when join()
\* never set _node. _open is not touched, and connects in progress are left
\* to call back.
Leave ==
    /\ UNCHANGED notNet
    /\ timers' = RemoveAllPingIntervals(timers)
    /\ left' = (left \/ nodeGen > 0)
    /\ op' = IF nodeGen = 0 THEN "leave threw" ELSE "leave"
    /\ UNCHANGED <<seeds, farmer, open, errorListeners, serializeHooks,
                   receiveHooks, nodeGen, subscriptions, connects, pingSeeds,
                   nextTimer, pings, joinResult>>

\* ------------------------------------------------------------------------
\* Shards, hashes, hex strings, audits
\* ------------------------------------------------------------------------

\* The shards the application stores: byte sequences.
Datas == {<<10>>, <<241, 10>>}

\* buffer.toString('hex'): two nibbles per byte, high nibble first.
RECURSIVE ToHex(_)
ToHex(d) ==
    IF d = <<>> THEN <<>>
    ELSE <<Head(d) \div 16, Head(d) % 16>> \o ToHex(Tail(d))

\* new Buffer(string, 'hex') for a string of whole bytes.
RECURSIVE FromHex(_)
FromHex(h) ==
    IF Len(h) < 2 THEN <<>>
    ELSE <<h[1] * 16 + h[2]>> \o FromHex(SubSeq(h, 3, Len(h)))

\* utils.rmd160sha256(data): a digest, distinct for the shards of Datas.
RECURSIVE HashOf(_)
HashOf(d) ==
    IF d = <<>> THEN 5381
    ELSE (HashOf(Tail(d)) * 33 + Head(d)) % 65521

Hashes == {HashOf(d) : d \in Datas}

\* The peers that may act as farmers.
Farmers == {NodeIdOf(k) : k \in Keys}

\* The hex strings a RETRIEVE response may carry in data_shard; the empty
\* string is the falsy case of `!response.result.data_shard`.
HexReplies == {ToHex(d) : d \in Datas} \cup {<<>>}

\* new Audit({audits: 12, shard}) of store() call c: its Merkle root, and
\* getPrivateRecord(): the 12 challenges with the root.
RootOf(c) == 500 + c

PrivateRecord(c) ==
    [root |-> RootOf(c), challenges |-> [i \in 1..AuditCount |-> <<c, i>>]]

\* new Verification(proof).verify(root, depth): the proof must collapse to
\* the root of the private record. The challenge that was sent is not an
\* argument.
Verify(proof, record) == proof.root = record.root

\* A proof the farmer computes from the shard for a challenge of audit c,
\* and a proof made up without the shard.
ProofFor(challenge) == [root |-> RootOf(challenge[1]), leaf |-> challenge]

BogusProof(challenge) == [root |-> 0, leaf |-> challenge]

\* new StorageItem({ hash: shardHash }): four empty maps. contracts keeps
\* its keys in insertion order (Object.keys(item.contracts)[0] reads it).
NewItem == [contracts |-> <<>>, trees |-> {}, challenges |-> <<>>, meta |-> {}]

Range(f) == {f[x] : x \in DOMAIN f}

\* item.<map>[key] = value on a map whose keys are kept in order.
PutKey(keys, k) == IF k \in Range(keys) THEN keys ELSE Append(keys, k)

\* f[k] = v on a map given as a function.
Put(f, k, v) == [x \in DOMAIN f \cup {k} |-> IF x = k THEN v ELSE f[x]]

Count(f, k) == IF k \in DOMAIN f THEN f[k] ELSE 0

EmptyMap == [x \in {} |-> 0]

\* What a store() callback is handed: callback(err) or
\* callback(null, shardHash).
Failed(message) == [error |-> message, hash |-> 0]

Succeeded(hash) == [error |-> "", hash |-> hash]

\* ------------------------------------------------------------------------
\* store(): the pending table, OFFER, CONSIGN
\* ------------------------------------------------------------------------

InitStoreIdle ==
    /\ calls = <<>>
    /\ pending = {}
    /\ consigns = {}
    /\ refused = {}
    /\ items = EmptyMap
    /\ farmerHolds = {}
    /\ farmerProofs = {}
    /\ req = {}
    /\ lastResult = {}
    /\ auditSent = EmptyMap
    /\ discarded = {}
    /\ triesAfterDiscard = 0
    /\ falseAfterDiscard = FALSE

\* A table that keeps the entries already made under the same hash.
PendingAppend(table, hash, c) == table \cup {[hash |-> hash, call |-> c]}

\* this._pendingContracts[shardHash] = function(farmer) {...}: a property
\* assignment; the entry made before under that hash is replaced.
PendingAssign(table, hash, c) ==
    {e \in table : e.hash # hash} \cup {[hash |-> hash, call |-> c]}

\* Network.prototype.store(data, duration, callback).
Store ==
    /\ UNCHANGED notStore
    /\ Len(calls) < MaxStores
    /\ \E d \in Datas :
         LET data == FromHex(ToHex(d))
             c    == Len(calls) + 1
         IN  /\ calls' = Append(calls, [data |-> data, hash |-> HashOf(data),
                                         invoked |-> 0, consigns |-> 0,
                                         callbacks |-> <<>>])
             /\ pending' = PendingAssign(pending, HashOf(data), c)
    /\ UNCHANGED <<consigns, refused, items, farmerHolds, farmerProofs, req,
                   lastResult, auditSent, discarded, triesAfterDiscard,
                   falseAfterDiscard>>

\* PendingTable.take(shard_hash): the entry, removed from the table.
TakePending(table, hash) == {e \in table : e.hash # hash}

\* The OFFER handler of the protocol: an OFFER for a hash with no pending
\* entry, or one whose contract does not verify, is answered with an error;
\* otherwise the continuation is taken and invoked with the farmer's
\* contact, which sends CONSIGN (index.js:292-303).
HandleOffer ==
    /\ UNCHANGED notStore
    /\ \E f \in Farmers, h \in {calls[c].hash : c \in DOMAIN calls},
          valid \in BOOLEAN :
         IF valid /\ \E e \in pending : e.hash = h
         THEN LET e == CHOOSE x \in pending : x.hash = h
              IN  /\ pending' = TakePending(pending, h)
                  /\ calls' = [calls EXCEPT ![e.call].invoked = @ + 1,
                                            ![e.call].consigns = @ + 1]
                  /\ consigns' = consigns \cup
                         {[call |-> e.call, farmer |-> f, phase |-> "sent"]}
                  /\ UNCHANGED refused
         ELSE /\ refused' = IF valid THEN {<<f, h>>} ELSE refused
              /\ UNCHANGED <<calls, pending, consigns>>
    /\ UNCHANGED <<items, farmerHolds, farmerProofs, req, lastResult,
                   auditSent, discarded, triesAfterDiscard, falseAfterDiscard>>

\* A send callback that reports the error and goes on to load the item.
AfterConsignNoReturn(outcome) ==
    [callbacks |-> IF outcome = "ok" THEN <<>> ELSE <<Failed(outcome)>>,
     load      |-> TRUE]

\* A send callback that looks at neither err nor response.error.
AfterConsignIgnoresError(outcome) == [callbacks |-> <<>>, load |-> TRUE]

\* The callback of self._transport.send(farmer, CONSIGN): callback(err) on
\* a transport error, callback(new Error(...)) on an error response, each
\* followed by return; otherwise manager.load.
AfterConsign(outcome) ==
    [callbacks |-> IF outcome = "ok" THEN <<>> ELSE <<Failed(outcome)>>,
     load      |-> outcome = "ok"]

ConsignResponse ==
    /\ UNCHANGED notStore
    /\ \E x \in consigns, outcome \in {"transport error", "error response", "ok"} :
         /\ x.phase = "sent"
         /\ calls' = [calls EXCEPT ![x.call].callbacks =
                                        @ \o AfterConsign(outcome).callbacks]
         /\ consigns' = (consigns \ {x}) \cup
                IF AfterConsign(outcome).load
                THEN {[x EXCEPT !.phase = "loading"]} ELSE {}
         \* the farmer that answers without error has stored the shard
         /\ farmerHolds' = IF outcome = "ok"
                           THEN farmerHolds \cup {<<x.farmer, calls[x.call].hash>>}
                           ELSE farmerHolds
    /\ UNCHANGED <<pending, refused, items, farmerProofs, req, lastResult,
                   auditSent, discarded, triesAfterDiscard, falseAfterDiscard>>

\* item.contracts[farmer.nodeID] = contract; item.trees[...] = public
\* record; item.challenges[...] = private record; item.meta[...] = {}.
RecordFarmer(item, f, c) ==
    [contracts  |-> PutKey(item.contracts, f),
     trees      |-> item.trees \cup {f},
     challenges |-> Put(item.challenges, f, PrivateRecord(c)),
     meta       |-> item.meta \cup {f}]

\* The callbacks of manager.load and manager.save in the continuation: the
\* item is loaded (or made anew when load fails), the farmer is recorded,
\* the item is saved; callback(err) when save fails, else
\* callback(null, shardHash).
ItemSaved ==
    /\ UNCHANGED notStore
    /\ \E x \in consigns, saved \in BOOLEAN :
         LET h    == calls[x.call].hash
             item == IF h \in DOMAIN items THEN items[h] ELSE NewItem
         IN  /\ x.phase = "loading"
             /\ consigns' = consigns \ {x}
             /\ items' = IF saved THEN Put(items, h, RecordFarmer(item, x.farmer, x.call))
                         ELSE items
             /\ calls' = [calls EXCEPT ![x.call].callbacks =
                            Append(@, IF saved THEN Succeeded(h)
                                      ELSE Failed("save failed"))]
    /\ UNCHANGED <<pending, refused, farmerHolds, farmerProofs, req, lastResult,
                   auditSent, discarded, triesAfterDiscard, falseAfterDiscard>>

\* ------------------------------------------------------------------------
\* retrieve() and audit()
\* ------------------------------------------------------------------------

NoChallenge == <<0, 0>>

\* What a retrieve() or audit() callback is handed. called is FALSE when
\* the operation ended in an exception and the callback never ran; held
\* and stored record the circumstances for the properties, as do the item
\* the operation loaded, the farmer it chose and whether it sent its RPC.
Outcome(r, error, data, pass, held) ==
    [op |-> r.op, hash |-> r.hash, stored |-> r.stored, error |-> error,
     data |-> data, pass |-> pass, held |-> held, called |-> TRUE,
     loaded |-> r.item, farmer |-> r.farmer, rpc |-> r.phase = "sent"]

StoredOk(h) ==
    \E c \in DOMAIN calls : \E i \in DOMAIN calls[c].callbacks :
        calls[c].callbacks[i] = Succeeded(h)

NewRequest(o, h) ==
    [op |-> o, hash |-> h, phase |-> "load", item |-> NewItem, farmer |-> 0,
     challenge |-> NoChallenge, stored |-> StoredOk(h)]

\* Network.prototype.retrieve(hash, callback): self._manager.load(hash, ...)
RetrieveCall ==
    /\ UNCHANGED notStore
    /\ req = {}
    /\ \E h \in Hashes : req' = {NewRequest("retrieve", h)}
    /\ lastResult' = {}
    /\ UNCHANGED <<calls, pending, consigns, refused, items, farmerHolds,
                   farmerProofs, auditSent, discarded, triesAfterDiscard,
                   falseAfterDiscard>>

\* The callback of manager.load in retrieve() and in audit(): callback(err)
\* when the item cannot be loaded; else farmerID is the first key of
\* item.contracts and the router is asked for it.
Loaded(o) ==
    /\ UNCHANGED notStore
    /\ \E r \in req :
         /\ r.op = o
         /\ r.phase = "load"
         /\ IF r.hash \in DOMAIN items
            THEN /\ req' = {[r EXCEPT !.phase = "find",
                                      !.item = items[r.hash],
                                      !.farmer = items[r.hash].contracts[1]]}
                 /\ UNCHANGED lastResult
            ELSE /\ req' = {}
                 /\ lastResult' = {Outcome(r, "load failed", <<>>, FALSE, FALSE)}
    /\ UNCHANGED <<calls, pending, consigns, refused, items, farmerHolds,
                   farmerProofs, auditSent, discarded, triesAfterDiscard,
                   falseAfterDiscard>>

RetrieveLoaded == Loaded("retrieve")

\* The callback of router.findNode in retrieve(): callback(err);
\* callback('Could not find the farmer') when no node of the result has the
\* farmer's ID; else the RETRIEVE message is sent.
RetrieveFound ==
    /\ UNCHANGED notStore
    /\ \E r \in req, found \in {"error", "absent", "present"} :
         /\ r.op = "retrieve"
         /\ r.phase = "find"
         /\ IF found = "present"
            THEN /\ req' = {[r EXCEPT !.phase = "sent"]}
                 /\ UNCHANGED lastResult
            ELSE /\ req' = {}
                 /\ lastResult' =
                      {Outcome(r, IF found = "error" THEN "lookup failed"
                                  ELSE "Could not find the farmer",
                               <<>>, FALSE, FALSE)}
    /\ UNCHANGED <<calls, pending, consigns, refused, items, farmerHolds,
                   farmerProofs, auditSent, discarded, triesAfterDiscard,
                   falseAfterDiscard>>

\* if (!response.result.data_shard) callback(new Error('Invalid shard
\* returned')); else callback(null, new Buffer(data_shard, 'hex')).
RetrieveResult(r, shard) ==
    IF shard = <<>> THEN Outcome(r, "Invalid shard returned", <<>>, FALSE, FALSE)
    ELSE Outcome(r, "", FromHex(shard), FALSE, FALSE)

\* The callback of transport.send(farmer, RETRIEVE): a transport error, an
\* error response, or a result whose data_shard is whatever the farmer
\* chose to send.
RetrieveResponse ==
    /\ UNCHANGED notStore
    /\ \E r \in req :
         /\ r.op = "retrieve"
         /\ r.phase = "sent"
         /\ req' = {}
         /\ \/ \E e \in {"transport error", "error response"} :
                 lastResult' = {Outcome(r, e, <<>>, FALSE, FALSE)}
            \/ \E shard \in HexReplies :
                 lastResult' = {RetrieveResult(r, shard)}
    /\ UNCHANGED <<calls, pending, consigns, refused, items, farmerHolds,
                   farmerProofs, auditSent, discarded, triesAfterDiscard,
                   falseAfterDiscard>>

\* Network.prototype.audit(hash, callback): self._manager.load(hash, ...)
AuditCall ==
    /\ UNCHANGED notStore
    /\ req = {}
    /\ triesAfterDiscard < AuditCount
    /\ \A k \in DOMAIN auditSent : auditSent[k] <= AuditCount
    /\ \E h \in Hashes : req' = {NewRequest("audit", h)}
    /\ lastResult' = {}
    /\ UNCHANGED <<calls, pending, consigns, refused, items, farmerHolds,
                   farmerProofs, auditSent, discarded, triesAfterDiscard,
                   falseAfterDiscard>>

AuditLoaded == Loaded("audit")

\* challenge: audit.challenges[0], with audit = item.challenges[nodeID]:
\* always the first challenge of the private record, which audit() never
\* shortens nor saves; undefined when the list is empty.
ChallengeToSend(record, f) ==
    IF record.challenges = <<>> THEN NoChallenge ELSE record.challenges[1]

\* The callback of router.findNode in audit(): as in retrieve(); then the
\* private record of the farmer is read from the loaded item (a TypeError
\* when the item has none: the callback is never called) and the AUDIT
\* message is sent with its first challenge.
AuditFound ==
    /\ UNCHANGED notStore
    /\ \E r \in req, found \in {"error", "absent", "present"} :
         /\ r.op = "audit"
         /\ r.phase = "find"
         /\ IF found # "present"
            THEN /\ req' = {}
                 /\ lastResult' =
                      {Outcome(r, IF found = "error" THEN "lookup failed"
                                  ELSE "Could not find the farmer",
                               <<>>, FALSE, FALSE)}
                 /\ UNCHANGED auditSent
            ELSE IF r.farmer \notin DOMAIN r.item.challenges
            THEN /\ req' = {}
                 /\ lastResult' =
                      {[Outcome(r, "TypeError", <<>>, FALSE, FALSE)
                          EXCEPT !.called = FALSE]}
                 /\ UNCHANGED auditSent
            ELSE LET ch == ChallengeToSend(r.item.challenges[r.farmer], r.farmer)
                 IN  /\ req' = {[r EXCEPT !.phase = "sent", !.challenge = ch]}
                     /\ auditSent' = Put(auditSent, <<r.farmer, ch>>,
                                         Count(auditSent, <<r.farmer, ch>>) + 1)
                     /\ UNCHANGED lastResult
    /\ UNCHANGED <<calls, pending, consigns, refused, items, farmerHolds,
                   farmerProofs, discarded, triesAfterDiscard, falseAfterDiscard>>

\* What a farmer may put in result.proof: with the shard, the proof for the
\* challenge it was sent; without it, nothing (the falsy case), a made-up
\* proof, or a proof it computed earlier.
ProofReplies(f, h, challenge) ==
    IF <<f, h>> \in farmerHolds /\ challenge # NoChallenge
    THEN {ProofFor(challenge)}
    ELSE {BogusProof(NoChallenge), BogusProof(challenge)}
         \cup {ProofFor(p[2]) : p \in {q \in farmerProofs : q[1] = f}}

\* verification.verify(audit.root, audit.depth)
AuditVerdict(proof, record) == Verify(proof, record)

\* The callback of transport.send(farmer, AUDIT): callback(err);
\* callback(new Error(response.error.message)); callback(new Error('Invalid
\* proof returned')) when result.proof is falsy; else
\* callback(null, verification.verify(audit.root, audit.depth)).
AuditResponse ==
    /\ UNCHANGED notStore
    /\ \E r \in req :
         LET held == <<r.farmer, r.hash>> \in farmerHolds
             gone == <<r.farmer, r.hash>> \in discarded
             record == r.item.challenges[r.farmer]
         IN
         /\ r.op = "audit"
         /\ r.phase = "sent"
         /\ req' = {}
         /\ \/ /\ lastResult' = {Outcome(r, "transport error", <<>>, FALSE, held)}
               /\ UNCHANGED <<farmerProofs, triesAfterDiscard, falseAfterDiscard>>
            \/ /\ lastResult' = {Outcome(r, "error response", <<>>, FALSE, held)}
               /\ triesAfterDiscard' = triesAfterDiscard + (IF gone THEN 1 ELSE 0)
               /\ UNCHANGED <<farmerProofs, falseAfterDiscard>>
            \/ \E proof \in ProofReplies(r.farmer, r.hash, r.challenge) :
                 /\ triesAfterDiscard' = triesAfterDiscard + (IF gone THEN 1 ELSE 0)
                 /\ farmerProofs' = IF held
                                    THEN farmerProofs \cup {<<r.farmer, r.challenge>>}
                                    ELSE farmerProofs
                 /\ IF proof.leaf = NoChallenge
                    THEN /\ lastResult' =
                              {Outcome(r, "Invalid proof returned", <<>>, FALSE, held)}
                         /\ UNCHANGED falseAfterDiscard
                    ELSE /\ lastResult' =
                              {Outcome(r, "", <<>>, AuditVerdict(proof, record), held)}
                         /\ falseAfterDiscard' =
                              (falseAfterDiscard \/ (gone /\ ~AuditVerdict(proof, record)))
    /\ UNCHANGED <<calls, pending, consigns, refused, items, farmerHolds,
                   auditSent, discarded>>

\* The farmer deletes a shard it holds and tells nobody.
Discard ==
    /\ UNCHANGED notStore
    /\ \E x \in farmerHolds :
         /\ farmerHolds' = farmerHolds \ {x}
         /\ discarded' = discarded \cup {x}
    /\ UNCHANGED <<calls, pending, consigns, refused, items, farmerProofs, req,
                   lastResult, auditSent, triesAfterDiscard, falseAfterDiscard>>

\* The state after one store() has called back without error: the item
\* holds farmer f under the hash of d, and f has the shard.
InitStored ==
    \E d \in Datas, f \in Farmers :
        /\ calls = <<[data |-> d, hash |-> HashOf(d), invoked |-> 1,
                      consigns |-> 1, callbacks |-> <<Succeeded(HashOf(d))>>]>>
        /\ pending = {}
        /\ consigns = {}
        /\ refused = {}
        /\ items = Put(EmptyMap, HashOf(d), RecordFarmer(NewItem, f, 1))
        /\ farmerHolds = {<<f, HashOf(d)>>}
        /\ farmerProofs = {}
        /\ req = {}
        /\ lastResult = {}
        /\ auditSent = EmptyMap
        /\ discarded = {}
        /\ triesAfterDiscard = 0
        /\ falseAfterDiscard = FALSE

\* ------------------------------------------------------------------------
\* _farm(): the farmer's side of the negotiation
\* ------------------------------------------------------------------------

\* No contract has reached the subscription handler.
InitFarmIdle == farms = <<>>

\* The renter_id a published contract may carry.
RenterIds == {NodeIdOf(k) : k \in Keys}

\* What the farmer's side leaves alone.
notFarm == <<authVars, netVars>>

\* _subscribe's wrapper and the head of the _farm handler: a contract that
\* Contract.fromObject rejects is dropped; else the farmer sets farmer_id
\* and payment_destination, signs, and asks the router for renter_id.
FarmContract ==
    /\ UNCHANGED notFarm
    /\ subscriptions > 0
    /\ Len(farms) < MaxContracts
    /\ \E r \in RenterIds, h \in Hashes, decodes \in BOOLEAN :
         farms' = Append(farms,
                    [renter |-> r, hash |-> h, to |-> 0, reply |-> "",
                     signer |-> JunkKey,
                     phase |-> IF decodes THEN "find" ELSE "invalid"])
    /\ UNCHANGED storeVars

\* A lookup result taken without looking at the node IDs.
FindAnyNode(nodes, id) == IF nodes = {} THEN 0 ELSE CHOOSE n \in nodes : TRUE

\* nodes.filter(function(node) { return node.nodeID === renter_id; })[0]:
\* the contact with the renter's node ID, 0 for undefined.
FindRenter(nodes, id) == IF id \in nodes THEN id ELSE 0

\* The callback of router.findNode in _farm: return false on an error and
\* when the renter is not among the nodes; else OFFER is sent to the renter.
FarmFound ==
    /\ UNCHANGED notFarm
    /\ \E i \in DOMAIN farms, err \in BOOLEAN, nodes \in SUBSET RenterIds :
         LET renter == FindRenter(nodes, farms[i].renter)
         IN  /\ farms[i].phase = "find"
             /\ err => nodes = {}
             /\ farms' = [farms EXCEPT ![i] =
                    IF err THEN [@ EXCEPT !.phase = "lookup failed"]
                    ELSE IF renter = 0 THEN [@ EXCEPT !.phase = "no renter"]
                    ELSE [@ EXCEPT !.phase = "sent", !.to = renter]]
    /\ UNCHANGED storeVars

\* final.verify('renter', contract.get('renter_id')): the renter signature
\* of the contract was made by the key whose node ID is renter_id.
ContractVerifies(signer, id) == NodeIdOf(signer) = id

\* A send callback that persists whatever contract comes back.
AfterOfferNoVerify(reply, signer, id) ==
    IF reply = "contract" THEN "loading" ELSE "refused"

\* The callback of transport.send(renter, OFFER): return false on a
\* transport error, an error response, a result without contract, a
\* contract that does not decode, a renter signature that does not verify;
\* else manager.load.
AfterOffer(reply, signer, id) ==
    IF reply = "contract" /\ ContractVerifies(signer, id)
    THEN "loading" ELSE "refused"

OfferReplies ==
    {"transport error", "error response", "no contract", "undecodable",
     "contract"}

FarmResponse ==
    /\ UNCHANGED notFarm
    /\ \E i \in DOMAIN farms, reply \in OfferReplies,
          signer \in Keys \cup {JunkKey} :
         /\ farms[i].phase = "sent"
         /\ reply # "contract" => signer = JunkKey
         /\ farms' = [farms EXCEPT ![i] =
                [@ EXCEPT !.reply = reply, !.signer = signer,
                          !.phase = AfterOffer(reply, signer, farms[i].renter)]]
    /\ UNCHANGED storeVars

\* item.contracts[renter.nodeID] = contract.toObject();
\* item.meta[renter.nodeID] = {}; trees and challenges are not written.
RecordRenter(item, r) ==
    [item EXCEPT !.contracts = PutKey(@, r), !.meta = @ \cup {r}]

\* The callbacks of manager.load and manager.save in _farm: the item is
\* loaded (or made anew), the renter is recorded, the item is saved; the
\* save callback does nothing.
FarmSaved ==
    /\ UNCHANGED notFarm
    /\ \E i \in DOMAIN farms, saved \in BOOLEAN :
         LET h    == farms[i].hash
             item == IF h \in DOMAIN items THEN items[h] ELSE NewItem
         IN  /\ farms[i].phase = "loading"
             /\ farms' = [farms EXCEPT ![i].phase =
                             IF saved THEN "saved" ELSE "save failed"]
             /\ items' = IF saved THEN Put(items, h, RecordRenter(item, farms[i].to))
                         ELSE items
    /\ UNCHANGED <<calls, pending, consigns, refused, farmerHolds, farmerProofs,
                   req, lastResult, auditSent, discarded, triesAfterDiscard,
                   falseAfterDiscard>>

\* A private record whose challenges have all been used.
Exhausted(record) == [record EXCEPT !.challenges = <<>>]

\* A joined node whose manager holds one StorageItem: written by store()
\* for farmer f, or the same with no challenge left in the private record
\* of f (the record is stored data, and the manager is handed to the
\* constructor), or the stub _farm saved for a contract of renter f.
InitManaged ==
    \E d \in Datas, k \in Keys, kind \in {"stored", "exhausted", "farmed"} :
        LET h == HashOf(d)
            f == NodeIdOf(k)
            stored == RecordFarmer(NewItem, f, 1)
        IN  /\ InitNetJoinedAs(kind = "farmed")
            /\ calls = IF kind = "farmed" THEN <<>>
                       ELSE <<[data |-> d, hash |-> h, invoked |-> 1,
                               consigns |-> 1, callbacks |-> <<Succeeded(h)>>]>>
            /\ farms = IF kind = "farmed"
                       THEN <<[renter |-> f, hash |-> h, to |-> f,
                               reply |-> "contract", signer |-> k,
                               phase |-> "saved"]>>
                       ELSE <<>>
            /\ items = Put(EmptyMap, h,
                          IF kind = "stored" THEN stored
                          ELSE IF kind = "farmed" THEN RecordRenter(NewItem, f)
                          ELSE [stored EXCEPT !.challenges[f] = Exhausted(@)])
            /\ farmerHolds = IF kind = "farmed" THEN {} ELSE {<<f, h>>}
            /\ pending = {}
            /\ consigns = {}
            /\ refused = {}
            /\ farmerProofs = {}
            /\ req = {}
            /\ lastResult = {}
            /\ auditSent = EmptyMap
            /\ discarded = {}
            /\ triesAfterDiscard = 0
            /\ falseAfterDiscard = FALSE

\* A node built without seeds, farmer or not.
InitNetFarm == \E f \in BOOLEAN : InitNetWith(<<>>, f)

\* ------------------------------------------------------------------------
\* Message authentication: the actions
\* ------------------------------------------------------------------------

InitAuth ==
    /\ now = 0
    /\ ticks = 0
    /\ wire = {}
    /\ pubkeys = [n \in NodeIds |-> {}]
    /\ verdict = {}

\* Time passes: a millisecond, or the length of the expiry window.
Tick ==
    /\ UNCHANGED notAuth
    /\ ticks < MaxTicks
    /\ \E d \in {1, NONCE_EXPIRE} : now' = now + d
    /\ ticks' = ticks + 1
    /\ verdict' = {}
    /\ UNCHANGED <<wire, pubkeys>>

\* transport.before('serialize', _signMessage): a peer holding key k sends a
\* message under its own contact.
Send ==
    /\ UNCHANGED notAuth
    /\ wire = {}
    /\ \E k \in Keys, id \in MsgIds :
         wire' = {[message |-> SignMessage(id, k, now),
                   nodeID  |-> NodeIdOf(k),
                   origin  |-> "signed"]}
    /\ verdict' = {}
    /\ UNCHANGED <<now, ticks, pubkeys>>

\* Somebody on the path rewrites the envelope: the claimed contact and,
\* with it or alone, the message id or the nonce (refreshed to the current
\* time).
Tamper ==
    /\ UNCHANGED notAuth
    /\ \E e \in wire, n \in NodeIds :
         /\ e.origin = "signed"
         /\ \E m \in {e.message}
                  \cup {[e.message EXCEPT !.id = id] : id \in MsgIds}
                  \cup {[e.message EXCEPT !.nonce = now]} :
              /\ <<m, n>> # <<e.message, e.nodeID>>
              /\ wire' = {[message |-> m, nodeID |-> n, origin |-> "forged"]}
    /\ UNCHANGED <<now, ticks, pubkeys, verdict>>

\* The transport receives the envelope and runs the 'receive' hooks join()
\* registered: _verifyMessage, and the protocol handlers, which answer the
\* message.
Receive ==
    /\ UNCHANGED notAuth
    /\ \E e \in wire :
         LET ran == RunReceiveHooks(receiveHooks, e.message, e.nodeID, now)
         IN  /\ verdict' = {[message |-> e.message, nodeID |-> e.nodeID,
                             origin |-> e.origin, at |-> now,
                             result |-> IF Ran(ran, "_verifyMessage")
                                        THEN VerifyMessage(e.message, e.nodeID, now)
                                        ELSE "not verified",
                             ran |-> ran]}
             /\ pubkeys' = IF Ran(ran, "_verifyMessage")
                           THEN PubkeysAfterVerify(pubkeys, e.message, e.nodeID, now)
                           ELSE pubkeys
    /\ wire' = {}
    /\ UNCHANGED <<now, ticks>>

NextAuth == Tick \/ Send \/ Tamper \/ Receive

InitOfAuth == InitAuth /\ InitNetJoined /\ InitStoreIdle /\ InitFarmIdle

SpecAuth == InitOfAuth /\ [][NextAuth]_vars

NextNet == Join \/ ConnectOk \/ ConnectErr \/ PingSeed \/ Leave

InitOfNet == InitAuth /\ InitNet /\ InitStoreIdle /\ InitFarmIdle

SpecNet == InitOfNet /\ [][NextNet]_vars

NextStore == Store \/ HandleOffer \/ ConsignResponse \/ ItemSaved

InitOfStore == InitAuth /\ InitNetIdle /\ InitStoreIdle /\ InitFarmIdle

SpecStore == InitOfStore /\ [][NextStore]_vars

NextStored ==
    \/ RetrieveCall \/ RetrieveLoaded \/ RetrieveFound \/ RetrieveResponse
    \/ AuditCall \/ AuditLoaded \/ AuditFound \/ AuditResponse
    \/ Discard

InitOfStored == InitAuth /\ InitNetJoined /\ InitStored /\ InitFarmIdle

SpecStored == InitOfStored /\ [][NextStored]_vars

NextFarm == Join \/ FarmContract \/ FarmFound \/ FarmResponse \/ FarmSaved

InitOfFarm == InitAuth /\ InitNetFarm /\ InitStoreIdle /\ InitFarmIdle

SpecFarm == InitOfFarm /\ [][NextFarm]_vars

NextManaged ==
    \/ RetrieveCall \/ RetrieveLoaded \/ RetrieveFound \/ RetrieveResponse
    \/ AuditCall \/ AuditLoaded \/ AuditFound \/ AuditResponse
    \/ Discard

InitOfManaged == InitAuth /\ InitManaged

SpecManaged == InitOfManaged /\ [][NextManaged]_vars

\* ------------------------------------------------------------------------
\* Message authentication: the properties
\* ------------------------------------------------------------------------

C3_RoundTripAuth ==
    \A v \in verdict :
        v.origin = "signed" =>
            (v.result = "ok" <=> v.at - v.message.nonce <= NONCE_EXPIRE)

\* C3 witness: a signed message received exactly NONCE_EXPIRE after it was
\* signed, and accepted.
C3_Witness ==
    \E v \in verdict :
        /\ v.origin = "signed"
        /\ v.at - v.message.nonce = NONCE_EXPIRE
        /\ v.result = "ok"

\* C3 (as claimed): such a message is accepted if and only if
\* now - nonce < NONCE_EXPIRE.
C3_RoundTripAuthStrict ==
    \A v \in verdict :
        v.origin = "signed" =>
            (v.result = "ok" <=> v.at - v.message.nonce < NONCE_EXPIRE)

\* C4: whenever the receive hook accepts a message, the key recovered from
\* its signature over id + nonce derives to contact.nodeID, and a message
\* claiming the node ID of key K is accepted only when K made the signature
\* over exactly that id + nonce.
C4_NodeIdBinding ==
    \A v \in verdict :
        v.result = "ok" =>
            /\ NodeIdOf(Recover(v.message.signature,
                                Target(v.message.id, v.message.nonce))) = v.nodeID
            /\ \A k \in Keys :
                 v.nodeID = NodeIdOf(k) =>
                     /\ v.message.signature.key = k
                     /\ v.message.signature.target =
                            Target(v.message.id, v.message.nonce)

\* C4 witness: a fresh message signed by key Q and claiming the node ID of
\* another key K reached the hook and was refused.
C4_Witness ==
    \E v \in verdict : \E k \in Keys :
        /\ v.nodeID = NodeIdOf(k)
        /\ v.message.signature.key \in Keys \ {k}
        /\ v.message.signature.target = Target(v.message.id, v.message.nonce)
        /\ ~NonceExpired(v.at, v.message.nonce)
        /\ v.result = "Signature verification failed"

\* C14: on a joined node the verify hook runs before the protocol handlers
\* for every inbound message, and a message that fails verification (expired
\* nonce or bad signature) is dropped at the hook: the handlers never run for
\* it, so no reply is produced.
C14_VerifyBeforeHandler ==
    \A v \in verdict :
        /\ \A i \in DOMAIN v.ran :
              v.ran[i] = "protocol" =>
                  \E j \in 1..(i - 1) : v.ran[j] = "_verifyMessage"
        /\ v.result # "ok" => ~Ran(v.ran, "protocol")

\* C14 witness: a message whose nonce had expired reached the joined node;
\* only the verify hook ran.
C14_Witness ==
    \E v \in verdict :
        /\ v.result = "Message signature expired"
        /\ v.ran = <<"_verifyMessage">>
        /\ receiveHooks = <<"_verifyMessage", "protocol">>

\* C13 (as claimed): the cache is written on successful verification only:
\* in every reachable state each entry _pubkeys[id] holds a public key whose
\* node ID is id.
C13_PubkeyCacheOnSuccess ==
    \A n \in NodeIds : \A k \in pubkeys[n] : NodeIdOf(k) = n

\* ------------------------------------------------------------------------
\* Lifecycle and seed liveness: the properties
\* ------------------------------------------------------------------------

\* C7: a join() on a node that is already open fails with "Network
\* interface already open" and changes nothing: no hook or error listener
\* is registered, _node is not replaced, no connect is started, no
\* subscription is made and no ping timer is added.
C7_JoinIdempotent ==
    [][(open /\ op' = "join") =>
          /\ joinResult' = "Network interface already open"
          /\ UNCHANGED <<open, errorListeners, serializeHooks, receiveHooks,
                         nodeGen, subscriptions, connects, pingSeeds, timers,
                         nextTimer>>]_vars

\* C7 witness: a second join() has failed on an open node that has a seed
\* timer running.
C7_Witness ==
    /\ open
    /\ op = "join"
    /\ joinResult = "Network interface already open"
    /\ timers # {}
    /\ errorListeners = 1
    /\ receiveHooks = <<"_verifyMessage", "protocol">>

\* C10 (as claimed): once leave() has been called, no seed PING timer is
\* active, then or later.
C10_LeaveCancelsAllTimers == left => timers = {}

\* C20: _open is false from construction until the first join(), a
\* successful join() sets it, and no step resets it: join() succeeds only on
\* a node that is not open, hence at most once, and a join() after leave()
\* fails with "Network interface already open".
C20_OpenMonotonic ==
    /\ ~open
    /\ [][/\ open => open'
          /\ (~open /\ open') => (op' = "join" /\ joinResult' = "ok")
          /\ (op' = "join" /\ joinResult' = "ok") => (~open /\ open')
          /\ (left /\ op' = "join") =>
                 joinResult' = "Network interface already open"]_vars

\* C20 witness: join(), leave(), and a second join() that failed; the node
\* is still marked open.
C20_Witness ==
    /\ left
    /\ open
    /\ nodeGen = 1
    /\ op = "join"
    /\ joinResult = "Network interface already open"

\* ------------------------------------------------------------------------
\* store, retrieve, audit: the properties
\* ------------------------------------------------------------------------

\* C1 (as claimed): across any sequence of audit() calls, no private
\* challenge of challenges[farmer] is sent in an AUDIT message more than
\* once.
C1_ChallengeFreshness ==
    \A k \in DOMAIN auditSent : auditSent[k] <= 1

\* C11 (as claimed): when audit() hands its callback a verdict, the saved
\* challenge list of the audited farmer is one entry shorter than the list
\* the audit loaded.
C11_ConsumptionCommitted ==
    \A r \in lastResult :
        (r.op = "audit" /\ r.called /\ r.error = "") =>
            Len(items[r.hash].challenges[r.farmer].challenges)
                = Len(r.loaded.challenges[r.farmer].challenges) - 1

C18_CallbackOnce ==
    \A r \in lastResult :
        /\ r.called
        /\ r.error \in {"load failed", "lookup failed", "Could not find the farmer"}
              => ~r.rpc

\* C5 (as claimed): after store(data) has called back with hash h, a
\* retrieve(h) that calls back without error hands over exactly the bytes
\* of data, whatever the farmer answered.
C5_ShardIntegrity ==
    \A r \in lastResult :
        (r.op = "retrieve" /\ r.stored /\ r.called /\ r.error = "") =>
            \A c \in DOMAIN calls :
                (calls[c].hash = r.hash /\ Succeeded(r.hash) \in Range(calls[c].callbacks))
                    => r.data = calls[c].data

\* C6 (as claimed): after a successful store, an audit answered by a farmer
\* that has the shard reports true; and once the farmer has discarded the
\* shard, the verdict false is reported within audit_count answered audits.
C6_AuditSoundness ==
    /\ \A r \in lastResult :
           (r.op = "audit" /\ r.called /\ r.error = "" /\ r.held) => r.pass
    /\ triesAfterDiscard >= AuditCount => falseAfterDiscard

\* C8: the pending-contract table never holds more than one continuation
\* for a shard hash, whatever the order of store() calls and OFFERs.
C8_PendingExclusive ==
    \A h \in Hashes : Cardinality({e \in pending : e.hash = h}) <= 1

\* C8 witness: a second store() of the same bytes was made while the first
\* was still waiting for an offer; the table holds the second entry.
C8_Witness ==
    /\ Len(calls) = 2
    /\ calls[1].hash = calls[2].hash
    /\ calls[1].invoked = 0
    /\ [hash |-> calls[2].hash, call |-> 2] \in pending

\* C9: for each store() call the continuation is invoked at most once, at
\* most one CONSIGN is sent, and the callback is called at most once, also
\* when several farmers send an OFFER for its shard hash.
C9_FirstOfferOnly ==
    \A c \in DOMAIN calls :
        /\ calls[c].invoked <= 1
        /\ calls[c].consigns <= 1
        /\ Len(calls[c].callbacks) <= 1

\* C9 witness: one store() call; farmer f1 offered, was consigned to and is
\* recorded in the item; farmer f2 offered for the same hash afterwards and
\* was refused because the entry was gone.
C9_Witness ==
    /\ Len(calls) = 1
    /\ calls[1].invoked = 1
    /\ calls[1].callbacks = <<Succeeded(calls[1].hash)>>
    /\ \E f1 \in Farmers, f2 \in Farmers :
         /\ f1 # f2
         /\ calls[1].hash \in DOMAIN items
         /\ items[calls[1].hash].contracts = <<f1>>
         /\ <<f2, calls[1].hash>> \in refused

\* The store() call whose continuation wrote an entry of the item of its
\* hash: the private record stored there is the one of its Audit.
WroteItem(c) ==
    /\ calls[c].hash \in DOMAIN items
    /\ \E f \in DOMAIN items[calls[c].hash].challenges :
          items[calls[c].hash].challenges[f].root = RootOf(c)

\* C16: the item of a shard hash holds farmer F, and a store() callback has
\* reported (null, hash), only after F answered CONSIGN without error and
\* the item was saved; a call whose CONSIGN failed has handed its callback
\* the error and has written nothing to the item.
C16_RecordOnConsignSuccess ==
    /\ \A h \in DOMAIN items : \A f \in Range(items[h].contracts) :
          <<f, h>> \in farmerHolds
    /\ \A c \in DOMAIN calls :
          /\ Succeeded(calls[c].hash) \in Range(calls[c].callbacks) =>
                /\ calls[c].hash \in DOMAIN items
                /\ items[calls[c].hash].contracts # <<>>
          /\ WroteItem(c) => calls[c].callbacks = <<Succeeded(calls[c].hash)>>
          /\ (\E e \in {"transport error", "error response"} :
                 Failed(e) \in Range(calls[c].callbacks)) => ~WroteItem(c)

\* C16 witness: two store() calls of different shards; the CONSIGN of one
\* failed, its callback has the error and there is no item for its hash; the
\* other succeeded and its farmer is recorded.
C16_Witness ==
    /\ Len(calls) = 2
    /\ calls[1].hash # calls[2].hash
    /\ calls[1].callbacks = <<Failed("error response")>>
    /\ calls[1].hash \notin DOMAIN items
    /\ calls[2].callbacks = <<Succeeded(calls[2].hash)>>
    /\ WroteItem(2)

\* C19 (as claimed): no store() call loses its callback: once an OFFER for
\* a shard hash has been accepted, its exchange has ended and no
\* continuation is waiting under that hash, every store() call of that hash
\* has had its callback invoked.
C19_NoLostCallback ==
    \A c \in DOMAIN calls :
        (/\ \E c2 \in DOMAIN calls :
               calls[c2].hash = calls[c].hash /\ calls[c2].invoked >= 1
         /\ ~\E e \in pending : e.hash = calls[c].hash
         /\ consigns = {})
            => Len(calls[c].callbacks) >= 1

\* ------------------------------------------------------------------------
\* The farmer's side: the properties
\* ------------------------------------------------------------------------

\* C17: the farmer sends OFFER only to the contact whose node ID is the
\* contract's renter_id, and every renter recorded in a StorageItem was
\* recorded by an exchange whose OFFER response carried a contract that
\* decoded and whose renter signature verifies against renter_id; an
\* exchange that ended otherwise has persisted nothing.
C17_FarmerPersistsVerified ==
    /\ \A i \in DOMAIN farms :
          farms[i].to # 0 => farms[i].to = farms[i].renter
    /\ \A h \in DOMAIN items : \A r \in Range(items[h].contracts) :
          \E i \in DOMAIN farms :
              /\ farms[i].hash = h
              /\ farms[i].renter = r
              /\ farms[i].phase = "saved"
              /\ farms[i].reply = "contract"
              /\ NodeIdOf(farms[i].signer) = r

\* C17 witness: two contracts; for the first the OFFER response carried a
\* contract signed by another peer's key and nothing was persisted under
\* its hash; the second was verified and its stub saved.
C17_Witness ==
    /\ Len(farms) = 2
    /\ farms[1].phase = "refused"
    /\ farms[1].reply = "contract"
    /\ farms[1].signer \in Keys
    /\ NodeIdOf(farms[1].signer) # farms[1].renter
    /\ farms[1].hash \notin DOMAIN items
    /\ farms[2].phase = "saved"
    /\ farms[2].hash \in DOMAIN items
    /\ items[farms[2].hash].contracts = <<farms[2].renter>>

\* C15 (as claimed): in every StorageItem the node has saved, the maps
\* contracts, trees, challenges and meta have the same keys.
C15_SameKeys ==
    \A h \in DOMAIN items :
        /\ Range(items[h].contracts) = items[h].trees
        /\ Range(items[h].contracts) = DOMAIN items[h].challenges
        /\ Range(items[h].contracts) = items[h].meta

====
